---- MODULE Spec2Model ----
(***************************************************************************)
(* The webhook client of discord_webhook (webhook.py, async_webhook.py):   *)
(* one client instance, blocking (DiscordWebhook) or non-blocking          *)
(* (AsyncDiscordWebhook), its local state, and the request lifecycle of    *)
(* execute / edit / delete against an endpoint that answers arbitrarily.   *)
(*                                                                         *)
(* Durations are in hundredths of a second.  A Python dict is a function   *)
(* on its key set.  json.dumps is a token sequence; the keys of a dict are *)
(* written in the fixed order of KeyOrder.                                 *)
(***************************************************************************)
EXTENDS Integers, Sequences, FiniteSets, TLC

VARIABLES
    mode,              \* "sync": DiscordWebhook, "async": AsyncDiscordWebhook
    rate_limit_retry,  \* self.rate_limit_retry
    wait,              \* self.wait
    id,                \* self.id (Unset: the attribute was never assigned)
    embeds,            \* self.embeds
    files,             \* self.files
    attachments,       \* self.attachments (each entry by its filename)
    pc,                \* "idle", "sent", "sleep", "returned", "raised"
    call,              \* the call in progress or just ended
    response,          \* the latest response of that call
    exc,               \* the exception that ended it, "" if none
    log,               \* requests, responses and waits of that call, in order
    session,           \* the transport sessions (httpx.AsyncClient) of that call
    batch,             \* the other instance create_batch returned, if any
    discord_embed      \* one DiscordEmbed object: its attributes

cfg == <<mode, rate_limit_retry, wait>>
client == <<id, embeds, attachments, files>>
history == <<pc, call, response, exc, log, session>>
vars == <<mode, rate_limit_retry, wait, id, embeds, attachments, files,
          pc, call, response, exc, log, session, batch, discord_embed>>

----------------------------------------------------------------------------
(* Bounds of the model *)

MaxEmbeds == 1      \* add_embed is offered while fewer embeds are stored
Max429 == 2         \* the endpoint answers at most this many 429 per call
MaxNesting == 1     \* a call starts only if the stored payload_json nests less

(* Program constants *)

JITTER == 15        \* the 0.15 s added to retry_after

URL == "https://discord.com/api/webhooks/123/tok"
UrlId == "123"      \* chunks[-2] of URL
Content == "hi"
Unset == "<unset>"
Absent == "<absent>"
None == "null"
\* a JSON number as the id of a message object: a value that is no str
NumericId == "<int 7>"

Filenames == {"a"}
\* a file's content: bytes or str (files: dict[str, tuple[str | None, str | bytes]])
FileContents == {[kind |-> "bytes", data |-> <<"x">>], [kind |-> "str", data |-> <<"t">>]}
\* an embed whose timestamp was set, and one whose timestamp never was
Embeds == {"stamped", "plain"}
KeyOrder == <<"_a", "payload_json">>

----------------------------------------------------------------------------
(* dict helpers *)

NoFiles == [k \in {} |-> [filename |-> None, kind |-> "str", data |-> <<>>]]

Put(f, k, v) == [x \in (DOMAIN f) \cup {k} |-> IF x = k THEN v ELSE f[x]]

Pop(f, k) == [x \in (DOMAIN f) \ {k} |-> f[x]]

RECURSIVE Cat(_)
Cat(ss) == IF Len(ss) = 0 THEN <<>> ELSE Head(ss) \o Cat(Tail(ss))

Count(s, x) == Cardinality({i \in 1..Len(s) : s[i] = x})

\* how many payload_json values are nested in the stored files
Nesting(f) ==
    IF "payload_json" \in DOMAIN f
    THEN 1 + Count(f["payload_json"].data, "payload_json")
    ELSE 0

----------------------------------------------------------------------------
(* Responses of the endpoint *)

Resp(s, v, k, i, h, a, r) ==
    [status |-> s, via |-> v, kind |-> k, id |-> i,
     has_attachments |-> h, attachments |-> a, retry_after |-> r]

NoResponse == Resp(0, FALSE, "empty", Absent, FALSE, <<>>, -1)

Responses ==
    \* a message object: id absent, empty or set; attachments absent, [] or [a]
    {Resp(200, TRUE, "dict", i, a[1], a[2], -1) :
        i \in {Absent, "", "m1"},
        a \in {<<FALSE, <<>>>>, <<TRUE, <<>>>>, <<TRUE, <<"a">>>>}}
    \cup {Resp(200, TRUE, "dict", NumericId, FALSE, <<>>, -1)}
    \cup {Resp(200, TRUE, "list", Absent, FALSE, <<>>, -1)}
    \cup {Resp(204, TRUE, "empty", Absent, FALSE, <<>>, -1)}
    \* rate limited, from the API (Via): retry_after 0.0, 0.5 or missing;
    \* without Via: a JSON body, or a page that is no JSON
    \cup {Resp(429, TRUE, "dict", Absent, FALSE, <<>>, r) : r \in {0, 50, -1}}
    \cup {Resp(429, FALSE, "dict", Absent, FALSE, <<>>, 50)}
    \cup {Resp(429, FALSE, "text", Absent, FALSE, <<>>, -1)}
    \* delivery failures: an error page, and the API's JSON error object
    \cup {Resp(500, TRUE, "text", Absent, FALSE, <<>>, -1)}
    \cup {Resp(400, TRUE, "dict", Absent, FALSE, <<>>, -1)}

\* Python truthiness of a value read with .get()
Truthy(v) == v \notin {Absent, "", None}

----------------------------------------------------------------------------
(* Requests and the events of a call *)

Request(m, t, p, k, b, f) ==
    [method |-> m, target |-> t, params |-> p, kind |-> k, body |-> b, parts |-> f]

NoRequest == Request("", <<>>, {}, "none", <<>>, NoFiles)

\* on: the session that carries the request
ReqEv(r, on) == [ev |-> "req", req |-> r, resp |-> NoResponse, dur |-> 0, on |-> on]
RespEv(r) == [ev |-> "resp", req |-> NoRequest, resp |-> r, dur |-> 0, on |-> -1]
SleepEv(d) ==
    [ev |-> "sleep", req |-> NoRequest, resp |-> NoResponse, dur |-> d, on |-> -1]

NoCall ==
    [op |-> "none", remove_embeds |-> FALSE, request |-> NoRequest,
     id0 |-> Unset, embeds0 |-> <<>>, attachments0 |-> <<>>, files0 |-> NoFiles]

NewCall(op, re, r) ==
    [op |-> op, remove_embeds |-> re, request |-> r,
     id0 |-> id, embeds0 |-> embeds, attachments0 |-> attachments, files0 |-> files]

\* Sessions: 0 is the one the caller passes as client=, 1, 2, ... are those
\* the http_client property creates, in order; the blocking client has none
NoSession == [supplied |-> FALSE, created |-> 0, open |-> {}]

\* async with self.http_client as client
Acquire(s) == [s EXCEPT !.created = @ + 1, !.open = @ \cup {s.created + 1}]

\* the exit of that with block, by return or by exception
Release(s) == [s EXCEPT !.open = {}]

\* the session a request function bound to "client" sends on
Bound(s) == IF mode = "sync" THEN -1 ELSE IF s.supplied THEN 0 ELSE s.created

\* Objects shared between instances.  create_batch passes the same kwargs to
\* every instance, so the list or dict a key of kwargs holds is one object that
\* all of them reference; "shared" names the attributes for which the other
\* instance still references the object this client references, "other" is
\* what the other instance holds, "created" what it held when it was created.
NoBatch ==
    [made |-> FALSE, n |-> 0, shared |-> {},
     other |-> [embeds |-> <<>>, files |-> NoFiles, attachments |-> <<>>],
     created |-> [embeds |-> <<>>, files |-> NoFiles, attachments |-> <<>>]]

\* the step mutates the objects of the attributes in inplace (append, pop,
\* item assignment) and assigns new objects to those in rebound
Aliased(inplace, rebound) ==
    IF ~batch.made THEN batch
    ELSE [batch EXCEPT
            !.shared = @ \ rebound,
            !.other = [embeds |-> IF "embeds" \in inplace \cap batch.shared
                                  THEN embeds' ELSE @.embeds,
                       files |-> IF "files" \in inplace \cap batch.shared
                                 THEN files' ELSE @.files,
                       attachments |-> IF "attachments" \in inplace \cap batch.shared
                                       THEN attachments' ELSE @.attachments]]

\* no DiscordEmbed object is under observation
NoEmbed == [made |-> FALSE]

\* the caller holds control and no call's outcome is pending
CallerHasControl == pc = "idle"

----------------------------------------------------------------------------
(* Serialization: the json property and json.dumps *)

\* DiscordEmbed.as_dict reads self.timestamp, which __init__ assigns only
\* when a timestamp is given
as_dict_raises(e) == e = "plain"

\* the values the json property reads
json ==
    [url |-> URL, id |-> id, rate_limit_retry |-> rate_limit_retry,
     attachments |-> attachments, content |-> Content, embeds |-> embeds,
     files |-> files]

\* the keys of the mapping the json property returns
JsonKeys(data) ==
    {"url", "id", "rate_limit_retry"}
    \cup (IF data.attachments # <<>> THEN {"attachments"} ELSE {})
    \cup (IF data.content # "" THEN {"content"} ELSE {})
    \cup (IF data.embeds # <<>> THEN {"embeds"} ELSE {})
    \cup (IF DOMAIN data.files # {} THEN {"files"} ELSE {})

\* the exception the json property raises, "" if none
JsonExc ==
    IF id = Unset THEN "AttributeError"
    ELSE IF \E i \in 1..Len(embeds) : as_dict_raises(embeds[i]) THEN "AttributeError"
    ELSE ""

\* json.dumps of the files dict: each value a list [filename, content]
FileTokens(f) ==
    Cat([i \in 1..Len(KeyOrder) |->
            IF KeyOrder[i] \in DOMAIN f
            THEN <<KeyOrder[i], "[", f[KeyOrder[i]].filename, "<<">>
                 \o f[KeyOrder[i]].data \o <<">>", "]">>
            ELSE <<>>])

\* json.dumps raises TypeError on bytes
Serializable(data) == \A k \in DOMAIN data.files : data.files[k].kind # "bytes"

dumps(data) ==
    <<"{", "url", data.url, "id", data.id, "rate_limit_retry",
      IF data.rate_limit_retry THEN "true" ELSE "false">>
    \o (IF "attachments" \in JsonKeys(data)
        THEN <<"attachments", "[">> \o data.attachments \o <<"]">> ELSE <<>>)
    \o (IF "content" \in JsonKeys(data) THEN <<"content", data.content>> ELSE <<>>)
    \o (IF "embeds" \in JsonKeys(data)
        THEN <<"embeds", "[">> \o data.embeds \o <<"]">> ELSE <<>>)
    \o (IF "files" \in JsonKeys(data)
        THEN <<"files", "{">> \o FileTokens(data.files) \o <<"}">> ELSE <<>>)
    \o <<"}">>

\* the exception building json.dumps(self.json) raises, "" if none
DumpsExc ==
    IF JsonExc # "" THEN JsonExc
    ELSE IF ~Serializable(json) THEN "TypeError"
    ELSE ""

query_params == IF wait THEN {<<"wait", "true">>} ELSE {}

\* the payload_json slot; the non-blocking api_post_request encodes it to bytes
payload_json(encoded) ==
    [filename |-> None, kind |-> IF encoded THEN "bytes" ELSE "str",
     data |-> dumps(json)]

Raise(e) == [exc |-> e, files |-> files, req |-> NoRequest]

\* api_post_request of the client variant m: the exception raised, the files
\* afterwards, the request sent
api_post_request_of(m) ==
    IF DOMAIN files = {}
    THEN IF JsonExc # "" THEN Raise(JsonExc)
         ELSE [exc |-> "", files |-> files,
               req |-> Request("POST", <<URL>>, query_params, "json",
                               dumps(json), NoFiles)]
    ELSE IF DumpsExc # "" THEN Raise(DumpsExc)
         ELSE LET fs == Put(files, "payload_json", payload_json(m = "async"))
              IN  [exc |-> "", files |-> fs,
                   req |-> Request("POST", <<URL>>, query_params, "multipart",
                                   <<>>, fs)]

api_post_request == api_post_request_of(mode)

isinstance_str(v) == v # NumericId

\* the assertions are never evaluated
Precondition_Skipped == IF id = Unset THEN "AttributeError" ELSE ""

\* the assertions that open edit and delete; reading self.id raises when the
\* attribute was never assigned
Precondition ==
    IF id = Unset THEN "AttributeError"
    ELSE IF ~isinstance_str(id) \/ ~isinstance_str(URL) THEN "AssertionError"
    ELSE ""

MessageUrl == <<URL, "messages", id>>

\* the request edit binds with partial(): exception, files afterwards, request
edit_request ==
    IF Precondition # "" THEN Raise(Precondition)
    ELSE IF DOMAIN files = {}
    THEN IF JsonExc # "" THEN Raise(JsonExc)
         ELSE [exc |-> "", files |-> files,
               req |-> Request("PATCH", MessageUrl, {<<"wait", "true">>}, "json",
                               dumps(json), NoFiles)]
    ELSE IF DumpsExc # "" THEN Raise(DumpsExc)
         ELSE LET fs == Put(files, "payload_json", payload_json(FALSE))
              IN  [exc |-> "", files |-> fs,
                   req |-> Request("PATCH", MessageUrl, {}, "multipart", <<>>, fs)]

delete_request ==
    IF Precondition # "" THEN Raise(Precondition)
    ELSE [exc |-> "", files |-> files,
          req |-> Request("DELETE", MessageUrl, {}, "none", <<>>, NoFiles)]

----------------------------------------------------------------------------
(* The rate-limit loop and the reconciliation of the response *)

\* the non-blocking delete never calls handle_rate_limit
HandlesRateLimit_of(m, op) == ~(m = "async" /\ op = "delete")

HandlesRateLimit(op) == HandlesRateLimit_of(mode, op)

\* handle_rate_limit has been entered by the call in progress
InLoop == \E i \in 1..Len(log) : log[i].ev = "sleep"

\* an "if" in place of the "while": the loop body runs once
LoopContinues_If(r) == FALSE

\* the condition of "while response.status_code == 429"
LoopContinues(r) == r.status = 429

\* a maximum attempt count: the loop gives up after its first resubmission
Retries_Capped(r) ==
    /\ r.status = 429 /\ rate_limit_retry /\ HandlesRateLimit(call.op)
    /\ ~InLoop

\* the response is handed to handle_rate_limit, or keeps its loop going
Retries(r) ==
    IF InLoop THEN LoopContinues(r)
    ELSE r.status = 429 /\ rate_limit_retry /\ HandlesRateLimit(call.op)

wh_sleep(r) == r.retry_after + JITTER

\* one iteration of the loop on a 429: the exception raised, "" if it sleeps
LoopExc(r) ==
    IF r.kind \in {"empty", "text"} THEN "JSONDecodeError"
    ELSE IF ~r.via THEN "HTTPException"
    ELSE IF r.kind = "list" THEN "TypeError"
    ELSE IF r.retry_after < 0 THEN "KeyError"
    ELSE ""

\* json.loads(response.content.decode("utf-8")).get(...)
ReconcileExc(r) ==
    IF r.kind \in {"empty", "text"} THEN "JSONDecodeError"
    ELSE IF r.kind = "list" THEN "AttributeError"
    ELSE ""

\* the id is read but never stored
ReconciledId_Kept(r) == id

ReconciledId(r) == IF Truthy(r.id) THEN r.id ELSE id

\* the attachments are read but never stored
ReconciledAttachments_Kept(r) == attachments

\* only the blocking execute absorbs the attachments
ReconciledAttachments_of(m, r) ==
    IF m = "sync" /\ r.has_attachments /\ r.attachments # <<>>
    THEN r.attachments
    ELSE attachments

ReconciledAttachments(r) == ReconciledAttachments_of(mode, r)

EmbedsAfter(clear) == IF clear THEN <<>> ELSE embeds

----------------------------------------------------------------------------
(* Initial state: a client just constructed from URL *)

Init ==
    /\ mode \in {"sync", "async"}
    /\ rate_limit_retry \in BOOLEAN
    /\ wait \in BOOLEAN
    \* __init__ assigns self.id only when no id is passed
    /\ id \in {UrlId, Unset}
    /\ embeds = <<>>
    /\ files = NoFiles
    /\ attachments = <<>>
    /\ pc = "idle"
    /\ call = NoCall
    /\ response = NoResponse
    /\ exc = ""
    /\ log = <<>>
    /\ session = NoSession
    /\ batch = NoBatch
    /\ discord_embed = NoEmbed

----------------------------------------------------------------------------
(* State mutators, called between the calls *)

add_embed(embed) ==
    /\ CallerHasControl
    /\ Len(embeds) < MaxEmbeds
    /\ embeds' = Append(embeds, embed)
    /\ UNCHANGED <<cfg, discord_embed, id, attachments, files, history>>
    /\ batch' = Aliased({"embeds"}, {})

remove_embeds ==
    /\ CallerHasControl
    /\ embeds' = <<>>
    /\ UNCHANGED <<cfg, discord_embed, id, attachments, files, history>>
    /\ batch' = Aliased({}, {"embeds"})

\* self.embeds.pop(index); an index out of range raises IndexError
remove_embed(index) ==
    /\ CallerHasControl
    /\ embeds' = IF index < Len(embeds)
                 THEN SubSeq(embeds, 1, index) \o SubSeq(embeds, index + 2, Len(embeds))
                 ELSE embeds
    /\ UNCHANGED <<cfg, discord_embed, id, attachments, files, history>>
    /\ batch' = Aliased({"embeds"}, {})

add_file(file, filename) ==
    /\ CallerHasControl
    /\ files' = Put(files, "_" \o filename,
                    [filename |-> filename, kind |-> file.kind, data |-> file.data])
    /\ UNCHANGED <<cfg, discord_embed, id, embeds, attachments, history>>
    /\ batch' = Aliased({"files"}, {})

\* the attachments without their first entry of that filename
WithoutFirst(atts, filename) ==
    IF \E i \in 1..Len(atts) : atts[i] = filename
    THEN LET index == CHOOSE i \in 1..Len(atts) :
                        /\ atts[i] = filename
                        /\ \A j \in 1..(i - 1) : atts[j] # filename
         IN  SubSeq(atts, 1, index - 1) \o SubSeq(atts, index + 1, Len(atts))
    ELSE atts

remove_file(filename) ==
    /\ CallerHasControl
    /\ files' = Pop(files, "_" \o filename)
    /\ attachments' = WithoutFirst(attachments, filename)
    /\ UNCHANGED <<cfg, discord_embed, id, embeds, history>>
    /\ batch' = Aliased({"files", "attachments"}, {})

remove_files(clear_attachments) ==
    /\ CallerHasControl
    /\ files' = NoFiles
    /\ attachments' = IF clear_attachments THEN <<>> ELSE attachments
    /\ UNCHANGED <<cfg, discord_embed, id, embeds, history>>
    /\ batch' = Aliased({}, {"files"} \cup (IF clear_attachments THEN {"attachments"}
                                             ELSE {}))

----------------------------------------------------------------------------
(* execute, edit, delete: the call up to its first request *)

\* the call raised before it returned
Raised(e) == pc' = "raised" /\ exc' = e

\* the session of the call once its first request is built: the caller's, or
\* one acquired after the assertions of edit and delete and before the
\* request is built
Entering(op, supplied) ==
    LET s == [supplied |-> supplied, created |-> 0, open |-> {}]
    IN  IF mode = "sync" \/ supplied \/ (op # "execute" /\ Precondition # "")
        THEN s
        ELSE Acquire(s)

Start(op, clear, built, supplied) ==
    /\ Nesting(files) < MaxNesting
    /\ mode = "sync" => ~supplied
    /\ call' = NewCall(op, clear,
                       IF op = "execute" THEN NoRequest ELSE built.req)
    /\ response' = NoResponse
    /\ files' = built.files
    /\ IF built.exc # ""
       THEN /\ Raised(built.exc) /\ log' = <<>>
            /\ session' = Release(Entering(op, supplied))
       ELSE /\ pc' = "sent" /\ exc' = ""
            /\ log' = <<ReqEv(built.req, Bound(Entering(op, supplied)))>>
            /\ session' = Entering(op, supplied)
    \* self.files["payload_json"] = ...
    /\ batch' = Aliased({"files"}, {})
    /\ UNCHANGED <<cfg, discord_embed, id, embeds, attachments>>

\* clear: the remove_embeds argument; supplied: a client= argument is passed
execute(clear, supplied) ==
    /\ CallerHasControl
    /\ Start("execute", clear, api_post_request, supplied)

edit(supplied) ==
    /\ CallerHasControl
    /\ Start("edit", FALSE, edit_request, supplied)

delete(supplied) ==
    /\ CallerHasControl
    /\ Start("delete", FALSE, delete_request, supplied)

----------------------------------------------------------------------------
(* The endpoint answers; the call handles the answer up to its next wait *)

Count429 == Cardinality({i \in 1..Len(log) : log[i].ev = "resp" /\ log[i].resp.status = 429})

\* the attributes the end of execute assigns a new object to
Rebound(r) ==
    {"files"}
    \cup (IF call.remove_embeds THEN {"embeds"} ELSE {})
    \cup (IF ReconcileExc(r) = "" /\ mode = "sync"
              /\ r.has_attachments /\ r.attachments # <<>>
          THEN {"attachments"} ELSE {})

\* the end of execute: clear embeds and files, then reconcile id and attachments
Finish(r) ==
    IF call.op = "execute"
    THEN /\ embeds' = EmbedsAfter(call.remove_embeds)
         /\ files' = NoFiles
         /\ IF ReconcileExc(r) # ""
            THEN Raised(ReconcileExc(r)) /\ UNCHANGED <<id, attachments>>
            ELSE /\ pc' = "returned" /\ exc' = ""
                 /\ id' = ReconciledId(r)
                 /\ attachments' = ReconciledAttachments(r)
    ELSE /\ pc' = "returned" /\ exc' = ""
         /\ UNCHANGED client

Receive(r) ==
    /\ pc = "sent"
    /\ r.status = 429 => Count429 < Max429
    /\ response' = r
    /\ IF Retries(r)
       THEN IF LoopExc(r) # ""
            THEN /\ Raised(LoopExc(r))
                 /\ log' = Append(log, RespEv(r))
                 /\ UNCHANGED client
            ELSE /\ pc' = "sleep" /\ exc' = ""
                 /\ log' = log \o <<RespEv(r), SleepEv(wh_sleep(r))>>
                 /\ UNCHANGED client
       ELSE /\ log' = Append(log, RespEv(r))
            /\ Finish(r)
    /\ batch' = IF ~Retries(r) /\ call.op = "execute"
                THEN Aliased({}, Rebound(r))
                ELSE batch
    \* api_post_request has returned; _edit and _delete return with the call
    /\ session' = IF call.op = "execute" \/ ~(Retries(r) /\ LoopExc(r) = "")
                  THEN Release(session)
                  ELSE session
    /\ UNCHANGED <<cfg, discord_embed, call>>

\* the request handle_rate_limit calls again: api_post_request for execute,
\* the partial() bound by edit or delete otherwise
Again ==
    IF call.op = "execute" THEN api_post_request
    ELSE [exc |-> "", files |-> files, req |-> call.request]

\* the session of the resubmission: handle_rate_limit calls
\* self.api_post_request without client=, the partial() of edit keeps its own
Resuming ==
    IF mode = "async" /\ call.op = "execute" THEN Acquire(session) ELSE session

\* the wait is over: response = request()
Resubmit ==
    /\ pc = "sleep"
    /\ files' = Again.files
    /\ IF Again.exc # ""
       THEN /\ Raised(Again.exc) /\ log' = log
            /\ session' = Release(Resuming)
       ELSE /\ pc' = "sent" /\ exc' = ""
            /\ log' = Append(log, ReqEv(Again.req,
                    IF call.op = "execute" /\ mode = "async"
                    THEN Resuming.created ELSE Bound(session)))
            /\ session' = Resuming
    /\ batch' = Aliased({"files"}, {})
    /\ UNCHANGED <<cfg, discord_embed, id, embeds, attachments, call, response>>

\* the call has ended: the caller takes the response or the exception and goes on
Continue ==
    /\ pc \in {"returned", "raised"}
    /\ pc' = "idle"
    /\ call' = NoCall
    /\ response' = NoResponse
    /\ exc' = ""
    /\ log' = <<>>
    /\ session' = NoSession
    /\ UNCHANGED <<cfg, discord_embed, client, batch>>

----------------------------------------------------------------------------

Next ==
    \/ \E e \in Embeds : add_embed(e)
    \/ \E i \in 0..MaxEmbeds : remove_embed(i)
    \/ remove_embeds
    \/ \E f \in FileContents, n \in Filenames : add_file(f, n)
    \/ \E n \in Filenames : remove_file(n)
    \/ \E c \in BOOLEAN : remove_files(c)
    \/ \E re \in BOOLEAN, c \in BOOLEAN : execute(re, c)
    \/ \E c \in BOOLEAN : edit(c)
    \/ \E c \in BOOLEAN : delete(c)
    \/ \E r \in Responses : Receive(r)
    \/ Resubmit
    \/ Continue

Spec == Init /\ [][Next]_vars

----------------------------------------------------------------------------
(* Reading the log of a call *)

ReqIdx == {i \in 1..Len(log) : log[i].ev = "req"}
RespIdx == {i \in 1..Len(log) : log[i].ev = "resp"}
SleepIdx == {i \in 1..Len(log) : log[i].ev = "sleep"}

Ended == pc \in {"returned", "raised"}

Last(S) == CHOOSE i \in S : \A j \in S : j <= i

\* a 429 the API itself sent: Via, and a JSON object carrying retry_after
RateLimited(r) ==
    r.status = 429 /\ r.via /\ r.kind = "dict" /\ r.retry_after >= 0

\* the endpoint answered k >= 1 such 429 and then a 200 or 204
RetriedThenSucceeded ==
    /\ Cardinality(RespIdx) >= 2
    /\ log[Last(RespIdx)].resp.status \in {200, 204}
    /\ \A i \in RespIdx \ {Last(RespIdx)} : RateLimited(log[i].resp)

----------------------------------------------------------------------------
(* C1: execute with rate_limit_retry enabled, answered k >= 1 consecutive 429
   carrying Via and then a 200/204, issues exactly k+1 requests and k waits,
   every wait after a 429 and before the next resubmission and lasting
   retry_after + 0.15 of the 429 just received, and returns the final
   200/204 response. *)
C1_RetryThenSuccess ==
    (mode = "sync" /\ call.op = "execute" /\ rate_limit_retry
        /\ RetriedThenSucceeded) =>
        /\ pc = "returned"
        /\ response = log[Last(RespIdx)].resp
        /\ Cardinality(ReqIdx) = Cardinality(RespIdx)
        /\ Cardinality(SleepIdx) = Cardinality(RespIdx) - 1
        /\ \A i \in RespIdx \ {Last(RespIdx)} :
              /\ log[i + 1].ev = "sleep"
              /\ log[i + 1].dur = log[i].resp.retry_after + JITTER
              /\ log[i + 2].ev = "req"
        /\ \A j \in SleepIdx : log[j - 1].ev = "resp" /\ log[j - 1].resp.status = 429

(* C2: with rate_limit_retry enabled, a 429 lacking Via makes execute, edit
   or delete raise, with no wait and no resubmission after it, be it the
   first 429 or one received after earlier retries. *)
C2_NoViaIsFatal ==
    rate_limit_retry =>
        \A i \in RespIdx :
            (log[i].resp.status = 429 /\ ~log[i].resp.via) =>
                i = Len(log) /\ pc = "raised"

(* C3: the retry loop exits at the first response whose status is not 429
   (200/204 or another status such as 500) and returns it without a further
   request; so an execute with rate_limit_retry enabled that returns normally
   never returns a 429. *)
C3_LoopExitsOnFirstNon429 ==
    /\ \A i \in RespIdx : log[i].resp.status # 429 => i = Len(log)
    /\ pc = "returned" => response = log[Len(log)].resp
    /\ (pc = "returned" /\ call.op = "execute" /\ rate_limit_retry) =>
            response.status # 429

C3_Witness ==
    /\ pc = "returned" /\ call.op = "execute" /\ rate_limit_retry
    /\ Cardinality(SleepIdx) >= 2
    /\ response.status = 200

----------------------------------------------------------------------------
(* The call runs on: the sleeping client wakes and resubmits, and the
   endpoint answers every request it receives. *)
FairSpec ==
    /\ Spec
    /\ WF_vars(Resubmit)
    /\ WF_vars(\E r \in Responses : Receive(r))

\* the call in progress or just ended has entered handle_rate_limit
Entered ==
    /\ rate_limit_retry /\ HandlesRateLimit(call.op)
    /\ RespIdx # {}
    /\ log[2].resp.status = 429

\* a 429 whose body is no JSON object carrying retry_after
Malformed(r) == r.status = 429 /\ (r.kind # "dict" \/ r.retry_after < 0)

(* C4 as stated: the loop has no maximum attempt count and ends if and only
   if the endpoint answers with a non-429 response or with a 429 lacking
   Via. *)
C4_EndsOnlyOnNon429OrNoVia ==
    (mode = "sync" /\ Entered) =>
        (Ended <=> (response.status # 429 \/ ~response.via))

C4_EndsIff ==
    (mode = "sync" /\ Entered) =>
        (Ended <=> (response.status # 429 \/ ~response.via \/ Malformed(response)))

(* C4, amended: in the blocking client the loop has no maximum attempt count:
   it ends if and only if the endpoint answers with a non-429 response, a 429
   lacking Via, or a 429 whose body is no JSON object carrying retry_after;
   after any other 429, whatever the number of attempts made, it waits and
   resubmits; and once such a response arrives the call returns or raises. *)
C4_UnboundedRetry ==
    /\ []C4_EndsIff
    /\ (mode = "sync" /\ Entered) ~> Ended

C4_Witness ==
    /\ mode = "sync" /\ Entered /\ pc = "sent"
    /\ Cardinality(SleepIdx) = Max429

----------------------------------------------------------------------------
(* C5: with rate_limit_retry disabled, a 429 answered to execute, edit or
   delete is never retried: the call issues exactly one request, performs no
   wait, raises nothing, and returns that 429 response. *)
C5_NoRetryWhenDisabled ==
    (mode = "sync" /\ ~rate_limit_retry
        /\ \E i \in RespIdx : log[i].resp.status = 429) =>
        /\ Len(log) = 2
        /\ pc = "returned"
        /\ response = log[2].resp

(* C6: every resubmission of the retry loop is identical to the request the
   call submitted first: same target, query parameters, serialized payload
   and file parts. *)
C6_ResubmissionIdentical ==
    mode = "sync" => \A i \in ReqIdx : log[i].req = log[1].req

\* the client was constructed with its identifier and its embeds serialize
Sendable ==
    /\ call.id0 # Unset
    /\ \A i \in 1..Len(call.embeds0) : ~as_dict_raises(call.embeds0[i])

(* C7: execute submits a JSON-body request when the client holds no files
   and a multipart request when it holds at least one: one part per file
   added, with its filename and content, plus one payload_json part; and the
   request is submitted, building it does not fail. *)
C7_ExecuteSubmits ==
    (mode = "sync" /\ call.op = "execute" /\ Sendable) =>
        /\ Len(log) >= 1
        /\ log[1].ev = "req"
        /\ IF DOMAIN call.files0 = {}
           THEN log[1].req.kind = "json"
           ELSE /\ log[1].req.kind = "multipart"
                /\ DOMAIN log[1].req.parts = DOMAIN call.files0 \cup {"payload_json"}
                /\ \A k \in DOMAIN call.files0 \ {"payload_json"} :
                        log[1].req.parts[k] = call.files0[k]

(* C8 as stated: after execute returns normally the files are empty, the
   embeds are empty if remove_embeds and unchanged otherwise, and the
   attachments are unchanged unless the response body carries an attachments
   entry, which they then equal. *)
C8_AttachmentsEqualAnyEntry ==
    (mode = "sync" /\ pc = "returned" /\ call.op = "execute") =>
        /\ files = NoFiles
        /\ embeds = (IF call.remove_embeds THEN <<>> ELSE call.embeds0)
        /\ attachments = (IF response.has_attachments THEN response.attachments
                          ELSE call.attachments0)

(* C8, amended: after the blocking execute returns normally the files are
   empty, the embeds are empty if remove_embeds and unchanged otherwise, and
   the attachments are unchanged unless the response body carries a non-empty
   attachments entry, which they then equal. *)
C8_StateAfterExecute ==
    (mode = "sync" /\ pc = "returned" /\ call.op = "execute") =>
        /\ files = NoFiles
        /\ embeds = (IF call.remove_embeds THEN <<>> ELSE call.embeds0)
        /\ attachments = (IF response.has_attachments /\ response.attachments # <<>>
                          THEN response.attachments
                          ELSE call.attachments0)

C8_Witness ==
    /\ mode = "sync" /\ pc = "returned" /\ call.op = "execute"
    /\ DOMAIN call.files0 # {}
    /\ call.remove_embeds /\ call.embeds0 # <<>>
    /\ call.attachments0 = <<>> /\ attachments = <<"a">>

(* C9: however execute ends (success, delivery failure, completed retry
   loop, or the fatal failure on a 429 lacking Via), the files are empty
   afterwards and, if remove_embeds was requested, so are the embeds. *)
C9_ClearedWhateverTheOutcome ==
    (mode = "sync" /\ call.op = "execute"
        /\ (pc = "returned"
            \/ (pc = "raised" /\ response.status = 429 /\ ~response.via))) =>
        /\ files = NoFiles
        /\ call.remove_embeds => embeds = <<>>

(* C10 as stated: after an execute whose final response body carries an id
   X the identifier equals X. *)
C10_IdEqualsAnyId ==
    (pc = "returned" /\ call.op = "execute" /\ response.id # Absent) =>
        id = response.id

C10_IdAfterCall ==
    /\ (pc = "returned" /\ call.op = "execute") =>
            id = (IF Truthy(response.id) THEN response.id ELSE call.id0)
    /\ call.op \in {"edit", "delete"} =>
            /\ id = call.id0
            /\ \A i \in ReqIdx : log[i].req.target = <<URL, "messages", id>>

(* C10, amended: after an execute that returns with a response body carrying
   a non-empty id X the identifier equals X; with no id, or an empty one, it
   is unchanged; nothing but execute changes the identifier, and every
   request of an edit or delete targets {url}/messages/{identifier}. *)
C10_IdentifierFollowsExecute ==
    /\ []C10_IdAfterCall
    /\ [][id' # id => (call.op = "execute" /\ pc' = "returned")]_vars

\* an edit in flight after an execute absorbed the id m1
C10_Witness ==
    /\ call.op = "edit" /\ pc = "sent"
    /\ id = "m1"
    /\ log[1].req.target = <<URL, "messages", "m1">>

----------------------------------------------------------------------------
\* the call ended on a response the retry loop does not take up
Terminal ==
    /\ Ended /\ RespIdx # {}
    /\ response.status # 429 \/ ~rate_limit_retry

(* C11: reconciliation in execute is best-effort: on a response whose body
   is empty, not JSON, or JSON that is not a mapping, execute does not raise;
   it returns the response and leaves the identifier and the attachments
   unchanged. *)
C11_BestEffortReconciliation ==
    (call.op = "execute" /\ Terminal /\ response.kind # "dict") =>
        /\ pc = "returned"
        /\ id = call.id0
        /\ attachments = call.attachments0

(* C12: a delivery failure is never raised: on a terminal response whose
   status is neither 200/204 nor 429, whatever its body, execute, edit and
   delete return normally with exactly that response. *)
C12_DeliveryFailureReturned ==
    (Terminal /\ response.status \notin {200, 204, 429}) =>
        /\ pc = "returned"
        /\ response = log[Len(log)].resp

----------------------------------------------------------------------------
\* the identifier the call found is set and is a string
Identified == call.id0 # Unset /\ isinstance_str(call.id0)

(* C13: edit and delete issue no request unless the identifier and the URL
   are set and are strings; otherwise the opening assertions fail before any
   request is made (AssertionError on a value that is no string,
   AttributeError on an identifier never assigned) and the client's state is
   unchanged; also after execute stored an id the server returned. *)
C13_NoRequestUnlessIdentified ==
    (call.op \in {"edit", "delete"} /\ ~Identified) =>
        /\ log = <<>>
        /\ pc = "raised"
        /\ exc = (IF call.id0 = Unset THEN "AttributeError" ELSE "AssertionError")
        /\ id = call.id0
        /\ embeds = call.embeds0
        /\ attachments = call.attachments0
        /\ files = call.files0

\* edit refused after execute stored a numeric id
C13_Witness ==
    /\ call.op = "edit" /\ pc = "raised" /\ exc = "AssertionError"
    /\ id = NumericId /\ log = <<>>
    /\ DOMAIN files # {}

----------------------------------------------------------------------------
(* C14: every request edit issues, the first and every retry, with or
   without files, is a PATCH to {url}/messages/{id} carrying the query
   parameter wait=true, whatever the client's own wait setting. *)
C14_EditForcesWait ==
    call.op = "edit" => \A i \in ReqIdx :
        /\ log[i].req.method = "PATCH"
        /\ log[i].req.target = <<URL, "messages", call.id0>>
        /\ <<"wait", "true">> \in log[i].req.params

----------------------------------------------------------------------------
(* C15: delete handles a 429 as execute does, in both clients: with
   rate_limit_retry enabled a 429 carrying Via is followed by a wait of
   retry_after + 0.15 and a resubmission of the delete request, until a
   non-429 response arrives, and a 429 lacking Via fails fatally. *)
C15_DeleteHandlesRateLimit ==
    (call.op = "delete" /\ rate_limit_retry) => \A i \in RespIdx :
        /\ RateLimited(log[i].resp) =>
                /\ Len(log) > i
                /\ log[i + 1] = SleepEv(log[i].resp.retry_after + JITTER)
                /\ Len(log) > i + 1 => log[i + 2].req = log[1].req
        /\ (log[i].resp.status = 429 /\ ~log[i].resp.via) =>
                i = Len(log) /\ pc = "raised"
        /\ (Ended /\ pc = "returned") => response.status # 429

----------------------------------------------------------------------------
(* C16: the blocking and the non-blocking client are equivalent: from the
   same client state and on the same responses, execute, edit and delete of
   both issue the same requests and waits, end with the same outcome and
   leave the same identifier, attachments, files and embeds.  The two differ
   in api_post_request, in the hand-over of a 429 to handle_rate_limit and in
   the reconciliation of the attachments only, so they are equivalent iff
   these agree wherever a call uses them. *)
C16_VariantsEquivalent ==
    \* the request execute submits, first or again, the exception building it
    \* raises, and the files it leaves stored for the next resubmission
    /\ (CallerHasControl \/ (pc = "sleep" /\ call.op = "execute")) =>
            api_post_request_of("sync") = api_post_request_of("async")
    /\ pc = "sent" => \A r \in Responses :
            \* the 429 is taken up by the retry loop
            /\ (r.status = 429 /\ rate_limit_retry) =>
                    HandlesRateLimit_of("sync", call.op)
                        = HandlesRateLimit_of("async", call.op)
            \* the state execute leaves when it returns
            /\ (call.op = "execute" /\ ReconcileExc(r) = "") =>
                    ReconciledAttachments_of("sync", r)
                        = ReconciledAttachments_of("async", r)

----------------------------------------------------------------------------
(* C17: in the non-blocking client the session is scoped to the call: when
   the caller supplies one, every request of the call, resubmissions
   included, is sent on it and the client creates none; when the caller
   supplies none, the client acquires one session, sends every request of
   the call on it, and has released it once the call has returned or
   raised. *)
C17_SessionScopedToCall ==
    (mode = "async" /\ call.op # "none") =>
        IF session.supplied
        THEN /\ session.created = 0
             /\ \A i \in ReqIdx : log[i].on = 0
        ELSE /\ session.created <= 1
             /\ \A i \in ReqIdx : log[i].on = 1 /\ session.created = 1
             /\ Ended => session.open = {}

----------------------------------------------------------------------------
(* Construction: DiscordWebhook(url, **kwargs), on URLs drawn from a bounded
   set.  A URL text is a sequence of tokens, "/" being one of them. *)

MaxSegments == 3    \* a URL has at most this many path segments

Segments == {"123456789", "abcDEF", ""}

\* the URLs: with or without "https://host", then "/" and a segment, repeated;
\* or no URL at all (None)
Urls ==
    {[absent |-> TRUE, scheme |-> FALSE, path |-> <<>>]}
    \cup {[absent |-> FALSE, scheme |-> sc, path |-> p] :
            sc \in BOOLEAN,
            p \in UNION {[1..n -> Segments] : n \in 0..MaxSegments}}

UrlText(u) ==
    (IF u.scheme THEN <<"https:", "/", "/", "host">> ELSE <<>>)
    \o Cat([i \in 1..Len(u.path) |->
                IF u.path[i] = "" THEN <<"/">> ELSE <<"/", u.path[i]>>])

\* text.split("/")
RECURSIVE split(_)
split(text) ==
    IF text = <<>> THEN <<"">>
    ELSE LET rest == split(Tail(text))
         IN  IF Head(text) = "/"
             THEN <<"">> \o rest
             ELSE <<Head(text) \o rest[1]>> \o Tail(rest)

\* the end of __init__: self.id, or the exception raised
parse_id(u, kwargs_id) ==
    IF kwargs_id # None THEN [exc |-> "", id |-> Unset]
    ELSE IF u.absent THEN [exc |-> "ValueError", id |-> Unset]
    ELSE LET chunks == split(UrlText(u))
         IN  IF Len(chunks) < 2
             THEN [exc |-> "ValueError", id |-> Unset]
             ELSE [exc |-> "", id |-> chunks[Len(chunks) - 1]]

\* before the constructor is called: its arguments are chosen
InitConstruct ==
    /\ mode \in {"sync", "async"}
    /\ rate_limit_retry = FALSE
    /\ wait = TRUE
    /\ id = Unset
    /\ embeds = <<>>
    /\ files = NoFiles
    /\ attachments = <<>>
    /\ pc = "new"
    /\ call \in {[op |-> "__init__", url |-> u, id |-> k] :
                    u \in Urls, k \in {None, "55"}}
    /\ response = NoResponse
    /\ exc = ""
    /\ log = <<>>
    /\ session = NoSession
    /\ batch = NoBatch
    /\ discord_embed = NoEmbed

DiscordWebhook ==
    /\ pc = "new"
    /\ LET made == parse_id(call.url, call.id)
       IN  /\ id' = made.id
           /\ exc' = made.exc
           /\ pc' = IF made.exc = "" THEN "constructed" ELSE "raised"
    /\ UNCHANGED <<cfg, discord_embed, embeds, attachments, files, call, response, log, session,
                   batch>>

NextConstruct == DiscordWebhook

ConstructSpec == InitConstruct /\ [][NextConstruct]_vars

(* C18: after a successful construction the identifier is set: it is the
   explicitly supplied id when one is given, and otherwise the path segment
   before the final segment of the URL. *)
C18_IdentifierSet ==
    pc = "constructed" =>
        /\ id # Unset
        /\ call.id # None => id = call.id
        /\ (call.id = None /\ Len(call.url.path) >= 2) =>
                id = call.url.path[Len(call.url.path) - 1]

(* C19: construction without an explicit id fails with a value error when
   the URL is absent or has fewer than two path segments, and no client is
   constructed with an identifier that is empty or that is no path segment
   of the URL. *)
C19_ShortUrlRejected ==
    (pc # "new" /\ call.id = None) =>
        /\ (call.url.absent \/ Len(call.url.path) < 2) =>
                pc = "raised" /\ exc = "ValueError"
        /\ pc = "constructed" =>
                /\ id # ""
                /\ \E i \in 1..Len(call.url.path) : id = call.url.path[i]

----------------------------------------------------------------------------
(* create_batch(urls, **kwargs) for two URLs: this client is the first
   instance returned, batch holds the second. *)

\* the keys kwargs may supply besides content
BatchKeys == {"embeds", "files", "attachments", "url"}

\* the object kwargs holds under a key, or the default kwargs.get() creates
Supplied(kwargs) ==
    [embeds |-> <<>>, files |-> NoFiles,
     attachments |-> IF "attachments" \in kwargs THEN <<"a">> ELSE <<>>]

\* before create_batch is called: its kwargs are chosen
InitBatch ==
    /\ mode = "sync"
    /\ rate_limit_retry = FALSE
    /\ wait \in BOOLEAN
    /\ id = Unset
    /\ embeds = <<>>
    /\ files = NoFiles
    /\ attachments = <<>>
    /\ pc = "new"
    /\ call \in {[op |-> "create_batch", kwargs |-> k] : k \in SUBSET BatchKeys}
    /\ response = NoResponse
    /\ exc = ""
    /\ log = <<>>
    /\ session = NoSession
    /\ batch = NoBatch
    /\ discord_embed = NoEmbed

create_batch ==
    /\ pc = "new"
    /\ call.op = "create_batch"
    /\ IF "url" \in call.kwargs
       THEN /\ Raised("TypeError")
            /\ UNCHANGED <<client, batch, call>>
       ELSE /\ pc' = "idle" /\ exc' = ""
            /\ call' = NoCall
            /\ id' = UrlId
            /\ embeds' = Supplied(call.kwargs).embeds
            /\ files' = Supplied(call.kwargs).files
            /\ attachments' = Supplied(call.kwargs).attachments
            /\ batch' = [made |-> TRUE, n |-> 2,
                         shared |-> call.kwargs \cap {"embeds", "files", "attachments"},
                         other |-> Supplied(call.kwargs),
                         created |-> Supplied(call.kwargs)]
    /\ UNCHANGED <<cfg, discord_embed, response, log, session>>

\* the answers to an execute of the first instance: a message object with
\* its attachments, or no content
BatchResponses ==
    {r \in Responses :
        \/ r.status = 200 /\ r.id = "m1" /\ r.attachments # <<>>
        \/ r.status = 204}

\* the mutations of the first instance
NextBatch ==
    \/ create_batch
    \/ \E e \in Embeds : add_embed(e)
    \/ \E i \in 0..MaxEmbeds : remove_embed(i)
    \/ \E f \in FileContents, n \in Filenames : add_file(f, n)
    \/ \E n \in Filenames : remove_file(n)
    \/ \E re \in BOOLEAN : execute(re, FALSE)
    \/ \E r \in BatchResponses : Receive(r)
    \/ Continue

BatchSpec == InitBatch /\ [][NextBatch]_vars

(* C20: create_batch returns one client per URL and the instances are
   independent: whatever the mutations applied to one instance, the embeds,
   files and attachments of the other are those it was created with; also
   when kwargs itself supplies embeds, files or attachments. *)
C20_InstancesIndependent ==
    batch.made =>
        /\ batch.n = 2
        /\ batch.other = batch.created

----------------------------------------------------------------------------
(* DiscordEmbed: one embed object, its constructor, its setters, as_dict and
   __len__.  A dict attribute (footer, author, a field) is a function on its
   keys.  The attributes url, image, thumbnail, video and provider are left
   out: as_dict reads them as it reads title and footer, __len__ reads none. *)

MaxFields == 2      \* add_embed_field is offered while fewer fields are stored

MaxColor == 16777215    \* the last value of range(16777216)

\* the color attribute: <<>> is None, <<c>> is the number c
NoColor == <<>>

\* the values passed as a color: None, an int, or a str given by its characters
NoneArg == [type |-> "NoneType", int |-> 0, str |-> <<>>]
IntArg(c) == [type |-> "int", int |-> c, str |-> <<>>]
StrArg(t) == [type |-> "str", int |-> 0, str |-> t]

Colors ==
    {NoneArg}
    \cup {IntArg(c) : c \in {-1, 0, MaxColor, MaxColor + 1}}
    \cup {StrArg(t) : t \in {<<"0">>, <<"f", "f", "F", "F", "F", "F">>,
                             <<"1", "0", "0", "0", "0", "0", "0">>,
                             <<"#", "f", "f">>}}

HexDigits == <<"0", "1", "2", "3", "4", "5", "6", "7", "8", "9",
               "a", "b", "c", "d", "e", "f">>
UpperHexDigits == <<"0", "1", "2", "3", "4", "5", "6", "7", "8", "9",
                    "A", "B", "C", "D", "E", "F">>

IsHexDigit(ch) == \E i \in 1..16 : ch \in {HexDigits[i], UpperHexDigits[i]}
DigitValue(ch) == (CHOOSE i \in 1..16 : ch \in {HexDigits[i], UpperHexDigits[i]}) - 1

\* int(text, 16) of an unsigned text without prefix: the exception, or the value
RECURSIVE int16(_)
int16(text) ==
    IF Len(text) = 1 THEN DigitValue(text[1])
    ELSE 16 * int16(SubSeq(text, 1, Len(text) - 1)) + DigitValue(text[Len(text)])
int16_raises(text) == text = <<>> \/ \E i \in 1..Len(text) : ~IsHexDigit(text[i])

Texts == {None, "abc"}
\* timestamp.isoformat(): one text stands for that of every timestamp
Isoformat == "1970-01-01T00:00:00"
FooterTexts == {"abcde"}
AuthorNames == {"abcd"}
FieldNames == {"n", "nm"}
FieldValues == {"v"}
\* a dict attribute that is None; every reader tests it for truth only, as
\* it tests {}
NoDict == [k \in {} |-> ""]

\* what set_color leaves in self.color, and the exception it raises
set_color_of(old, color) ==
    IF color.type = "str" /\ int16_raises(color.str)
    THEN [color |-> old, exc |-> "ValueError"]
    ELSE LET new == CASE color.type = "str" -> <<int16(color.str)>>
                      [] color.type = "int" -> <<color.int>>
                      [] OTHER -> NoColor
         IN  [color |-> new,
              exc |-> IF new # NoColor /\ new[1] \notin 0..MaxColor
                      THEN "ColorNotInRangeException" ELSE ""]

\* before the constructor is called: its arguments are chosen
InitEmbed ==
    /\ mode = "sync"
    /\ rate_limit_retry = FALSE
    /\ wait = TRUE
    /\ id = UrlId
    /\ embeds = <<>>
    /\ files = NoFiles
    /\ attachments = <<>>
    /\ pc = "new"
    /\ call \in {[op |-> "__init__", color |-> c, timestamp |-> t, self0 |-> NoEmbed] :
                    c \in Colors, t \in {<<>>, <<0>>, <<1>>}}
    /\ response = NoResponse
    /\ exc = ""
    /\ log = <<>>
    /\ session = NoSession
    /\ batch = NoBatch
    /\ discord_embed = NoEmbed

Webhook == <<cfg, client, response, log, session, batch>>

\* the embed operation ended: it returned value, or raised e if e is not ""
Ended_embed(op, arg, value, e) ==
    /\ pc' = IF e = "" THEN "returned" ELSE "raised"
    /\ exc' = e
    /\ call' = [op |-> op, arg |-> arg, self0 |-> discord_embed, returned |-> value]
    /\ UNCHANGED Webhook

\* DiscordEmbed(color=..., timestamp=...)
DiscordEmbed ==
    /\ pc = "new"
    /\ LET c == set_color_of(NoColor, call.color)
       IN  /\ pc' = IF c.exc = "" THEN "constructed" ELSE "raised"
           /\ exc' = c.exc
           /\ discord_embed' =
                IF c.exc # "" THEN NoEmbed
                ELSE [made |-> TRUE, title |-> None, description |-> None,
                      footer |-> NoDict, author |-> NoDict, fields |-> <<>>,
                      color |-> c.color,
                      \* if timestamp := kwargs.get("timestamp")
                      timestamp |-> IF call.timestamp \in {<<>>, <<0>>}
                                    THEN Unset ELSE Isoformat]
    /\ UNCHANGED <<Webhook, call>>

\* the caller holds the embed
HoldsEmbed == discord_embed.made /\ pc \in {"constructed", "returned", "raised"}

set_title(title) ==
    /\ HoldsEmbed
    /\ discord_embed' = [discord_embed EXCEPT !.title = title]
    /\ Ended_embed("set_title", title, None, "")

set_description(description) ==
    /\ HoldsEmbed
    /\ discord_embed' = [discord_embed EXCEPT !.description = description]
    /\ Ended_embed("set_description", description, None, "")

set_timestamp ==
    /\ HoldsEmbed
    /\ discord_embed' = [discord_embed EXCEPT !.timestamp = Isoformat]
    /\ Ended_embed("set_timestamp", 0, None, "")

set_color(color) ==
    /\ HoldsEmbed
    /\ LET c == set_color_of(discord_embed.color, color)
       IN  /\ discord_embed' = [discord_embed EXCEPT !.color = c.color]
           /\ Ended_embed("set_color", color, None, c.exc)

set_footer(text, icon_url) ==
    /\ HoldsEmbed
    /\ discord_embed' =
        [discord_embed EXCEPT !.footer =
            IF icon_url # None THEN [text |-> text, icon_url |-> icon_url]
            ELSE [text |-> text]]
    /\ Ended_embed("set_footer", text, None, "")

set_author(name) ==
    /\ HoldsEmbed
    /\ discord_embed' = [discord_embed EXCEPT !.author = [name |-> name]]
    /\ Ended_embed("set_author", name, None, "")

add_embed_field(name, value) ==
    /\ HoldsEmbed
    /\ Len(discord_embed.fields) < MaxFields
    /\ discord_embed' =
        [discord_embed EXCEPT !.fields =
            Append(@, [name |-> name, value |-> value, inline |-> TRUE])]
    /\ Ended_embed("add_embed_field", <<name, value>>, None, "")

\* list.pop(index): a negative index counts from the end
pop(list, index) ==
    LET i == IF index < 0 THEN Len(list) + index + 1 ELSE index + 1
    IN  IF i \in 1..Len(list)
        THEN [list |-> SubSeq(list, 1, i - 1) \o SubSeq(list, i + 1, Len(list)),
              exc |-> ""]
        ELSE [list |-> list, exc |-> "IndexError"]

delete_embed_field(index) ==
    /\ HoldsEmbed
    /\ LET p == pop(discord_embed.fields, index)
       IN  /\ discord_embed' = [discord_embed EXCEPT !.fields = p.list]
           /\ Ended_embed("delete_embed_field", index, None, p.exc)

\* the keys as_dict writes: those whose attribute is true
as_dict_keys(e) ==
    {k \in {"title", "description"} : e[k] \notin {None, ""}}
    \cup {k \in {"timestamp"} : e[k] # ""}
    \cup {k \in {"color"} : e[k] \notin {NoColor, <<0>>}}
    \cup {k \in {"footer", "author"} : DOMAIN e[k] # {}}
    \cup {k \in {"fields"} : e[k] # <<>>}

as_dict_of(e) ==
    IF e.timestamp = Unset
    THEN [data |-> NoDict, exc |-> "AttributeError"]
    ELSE [data |-> [k \in as_dict_keys(e) |-> IF k = "color" THEN e.color[1] ELSE e[k]],
          exc |-> ""]

as_dict ==
    /\ HoldsEmbed
    /\ Ended_embed("as_dict", None, as_dict_of(discord_embed).data,
                   as_dict_of(discord_embed).exc)
    /\ UNCHANGED discord_embed

RECURSIVE Sum(_)
Sum(ns) == IF ns = <<>> THEN 0 ELSE Head(ns) + Sum(Tail(ns))

\* the keys of a field in the order they were inserted
Keys(field) == SelectSeq(<<"name", "value", "inline">>, LAMBDA k : k \in DOMAIN field)

\* len(text or "") of a str or None, len(dict or "") of a dict or None
len_text(text) == IF text = None THEN 0 ELSE Len(text)
len_dict(dict) == Cardinality(DOMAIN dict)

\* __len__: "for field, value in self.fields" unpacks each field, a dict,
\* into its keys
len_of(e) ==
    IF \E i \in 1..Len(e.fields) : Len(Keys(e.fields[i])) # 2
    THEN [total |-> 0, exc |-> "ValueError"]
    ELSE [total |-> Sum([i \in 1..Len(e.fields) |->
                            Len(Keys(e.fields[i])[1]) + Len(Keys(e.fields[i])[2])])
                    + len_text(e.title) + len_text(e.description)
                    + len_dict(e.footer) + len_dict(e.author),
          exc |-> ""]

len ==
    /\ HoldsEmbed
    /\ Ended_embed("__len__", None, len_of(discord_embed).total,
                   len_of(discord_embed).exc)
    /\ UNCHANGED discord_embed

NextEmbed ==
    \/ DiscordEmbed
    \/ \E t \in Texts \ {None} : set_title(t)
    \/ \E d \in Texts \ {None} : set_description(d)
    \/ set_timestamp
    \/ \E c \in Colors : set_color(c)
    \/ \E t \in FooterTexts, u \in {None, "u"} : set_footer(t, u)
    \/ \E n \in AuthorNames : set_author(n)
    \/ \E n \in FieldNames, v \in FieldValues : add_embed_field(n, v)
    \/ \E i \in -(MaxFields + 1)..MaxFields : delete_embed_field(i)
    \/ as_dict
    \/ len

EmbedSpec == InitEmbed /\ [][NextEmbed]_vars

(* C21: for every integer color c in [0, 16777215], 0 and 16777215 included,
   set_color(c) succeeds and stores c, and an embed so colored, whenever
   as_dict returns, is serialized with color = c; set_color of a hexadecimal
   string ends as set_color of the integer it denotes. *)
C21_ColorRoundTrips ==
    /\ (call.op = "set_color" /\ call.arg.type = "int"
            /\ call.arg.int \in 0..MaxColor) =>
            pc = "returned" /\ discord_embed.color = <<call.arg.int>>
    /\ (call.op = "as_dict" /\ pc = "returned" /\ discord_embed.color # NoColor
            /\ discord_embed.color[1] \in 0..MaxColor) =>
            /\ "color" \in DOMAIN call.returned
            /\ call.returned["color"] = discord_embed.color[1]
    /\ (call.op = "set_color" /\ call.arg.type = "str"
            /\ ~int16_raises(call.arg.str)) =>
            LET same == set_color_of(call.self0.color, IntArg(int16(call.arg.str)))
            IN  discord_embed.color = same.color /\ exc = same.exc

\* the number a color argument denotes, <<>> if none
Denoted(color) ==
    CASE color.type = "int" -> <<color.int>>
      [] color.type = "str" /\ ~int16_raises(color.str) -> <<int16(color.str)>>
      [] OTHER -> <<>>

OutOfRange(color) == Denoted(color) # <<>> /\ Denoted(color)[1] \notin 0..MaxColor

(* C22: in every state of an embed its color is unset or an integer in
   [0, 16777215]: set_color, and the constructor, of a value outside that
   range fail with a range error and do not leave the value stored, and
   set_color(None) never raises and leaves the color unset. *)
C22_ColorInRange ==
    /\ discord_embed.made =>
            \/ discord_embed.color = NoColor
            \/ discord_embed.color[1] \in 0..MaxColor
    /\ (call.op = "set_color" /\ OutOfRange(call.arg)) =>
            pc = "raised" /\ exc = "ColorNotInRangeException"
    /\ (call.op = "__init__" /\ pc # "new" /\ OutOfRange(call.color)) =>
            pc = "raised" /\ exc = "ColorNotInRangeException" /\ ~discord_embed.made
    /\ (call.op = "set_color" /\ call.arg.type = "NoneType") =>
            pc = "returned" /\ discord_embed.color = NoColor

\* the properties of an embed that are set
PropertiesSet(e) ==
    {k \in {"title", "description"} : e[k] # None}
    \cup {k \in {"timestamp"} : e[k] # Unset}
    \cup {k \in {"color"} : e[k] # NoColor}
    \cup {k \in {"footer", "author"} : e[k] # NoDict}
    \cup {k \in {"fields"} : e[k] # <<>>}

(* C23: as_dict returns normally, with exactly the keys of the properties that
   are set; on an embed just constructed with nothing set it returns an empty
   mapping. *)
C23_SerializesWhatIsSet ==
    call.op = "as_dict" =>
        /\ pc = "returned"
        /\ DOMAIN call.returned = PropertiesSet(discord_embed)
        /\ PropertiesSet(discord_embed) = {} => call.returned = NoDict

\* list without its element at the 0-based position i
Without(list, i) == SubSeq(list, 1, i) \o SubSeq(list, i + 2, Len(list))

(* C24: add_embed_field appends to the end of the field sequence;
   delete_embed_field(i) with 0 <= i < length removes the field at position i
   and keeps the order of the others; with any other index it fails with an
   out-of-range error and leaves the fields unchanged. *)
C24_FieldsAreASequence ==
    /\ call.op = "add_embed_field" =>
            /\ pc = "returned"
            /\ discord_embed.fields =
                Append(call.self0.fields,
                       [name |-> call.arg[1], value |-> call.arg[2], inline |-> TRUE])
    /\ call.op = "delete_embed_field" =>
            IF call.arg \in 0..(Len(call.self0.fields) - 1)
            THEN /\ pc = "returned"
                 /\ discord_embed.fields = Without(call.self0.fields, call.arg)
            ELSE /\ pc = "raised" /\ exc = "IndexError"
                 /\ discord_embed.fields = call.self0.fields

\* the characters the length of an embed counts
Characters(e) ==
    len_text(e.title) + len_text(e.description)
    + (IF "text" \in DOMAIN e.footer THEN Len(e.footer.text) ELSE 0)
    + (IF "name" \in DOMAIN e.author THEN Len(e.author.name) ELSE 0)
    + Sum([i \in 1..Len(e.fields) |-> Len(e.fields[i].name) + Len(e.fields[i].value)])

(* C25: the length of an embed is the sum of the character lengths of its
   title, description, footer text, author name and every field's name and
   value, and taking it never fails, fields or not. *)
C25_LengthCountsCharacters ==
    call.op = "__len__" =>
        /\ pc = "returned"
        /\ call.returned = Characters(discord_embed)

----------------------------------------------------------------------------
(* The files and the attachments of a client constructed with
   attachments=[...], under add_file, remove_file and remove_files. *)

MaxAttachments == 3     \* the constructor is given at most this many attachments

AttachedFilenames == {"a", "b"}

\* after DiscordWebhook(url, attachments=[...])
InitFiles ==
    /\ mode = "sync"
    /\ rate_limit_retry = FALSE
    /\ wait = TRUE
    /\ id = UrlId
    /\ embeds = <<>>
    /\ files = NoFiles
    /\ attachments \in UNION {[1..n -> AttachedFilenames] : n \in 0..MaxAttachments}
    /\ pc = "idle"
    /\ call = NoCall
    /\ response = NoResponse
    /\ exc = ""
    /\ log = <<>>
    /\ session = NoSession
    /\ batch = NoBatch
    /\ discord_embed = NoEmbed

NextFiles ==
    \/ \E f \in FileContents, n \in AttachedFilenames : add_file(f, n)
    \/ \E n \in AttachedFilenames : remove_file(n)
    \/ \E c \in BOOLEAN : remove_files(c)

FileSpec == InitFiles /\ [][NextFiles]_vars

\* the entries of the attachments that are not of that filename, in order
Others(atts, filename) == SelectSeq(atts, LAMBDA a : a # filename)

(* C26: after remove_file(filename) the client holds no file slot of that
   filename and no attachment entry of that filename, however many there
   were; the slots and the entries of other filenames are unchanged, and
   removing a filename that is not present changes nothing. *)
C26_RemoveFileRemovesAll ==
    [][\A n \in AttachedFilenames :
        remove_file(n) =>
            /\ ("_" \o n) \notin DOMAIN files'
            /\ \A i \in 1..Len(attachments') : attachments'[i] # n
            /\ DOMAIN files' = DOMAIN files \ {"_" \o n}
            /\ \A k \in DOMAIN files' : files'[k] = files[k]
            /\ Others(attachments', n) = Others(attachments, n)
            /\ (("_" \o n) \notin DOMAIN files /\ Others(attachments, n) = attachments)
                    => UNCHANGED <<files, attachments>>]_vars

----------------------------------------------------------------------------
\* the keys of the outbound wire payload
WireKeys ==
    {"content", "username", "avatar_url", "tts", "embeds", "allowed_mentions",
     "components", "attachments"}

(* C27: in every client state the serialized payload, when the json property
   returns one, holds keys of the wire schema only, each only if its value is
   set: never the URL, the identifier, the rate_limit_retry flag or the file
   storage. *)
C27_PayloadIsWireSchema ==
    JsonExc = "" =>
        /\ JsonKeys(json) \subseteq WireKeys
        /\ "content" \in JsonKeys(json) => json.content # ""
        /\ "embeds" \in JsonKeys(json) => json.embeds # <<>>
        /\ "attachments" \in JsonKeys(json) => json.attachments # <<>>

\* the slot add_file(file, filename) stores
IsFileSlot(k) ==
    \E n \in Filenames : k = "_" \o n /\ files[k].filename = n

(* C28: whenever no request is in flight, before the first call and after
   each call has returned or raised, the file storage holds only slots that
   add_file created, each under a key derived from its filename and distinct
   from the reserved payload_json key; the payload_json slot is never left
   in the file storage. *)
C28_OnlyFileSlotsRemain ==
    (CallerHasControl \/ Ended) =>
        /\ "payload_json" \notin DOMAIN files
        /\ \A k \in DOMAIN files : k # "payload_json" /\ IsFileSlot(k)

====
